---- MODULE Spec2Model ----
(***************************************************************************)
(* Client-side game-state engine of the OFC training page                  *)
(* (static/common.js): Card, Slot, Board and Game, the input handlers, and *)
(* the asynchronous /ai_move and /update_state exchanges.                  *)
(*                                                                         *)
(* The Game object and the DOM marks it maintains form a record; every     *)
(* method of the source is an operator from such a record to the record    *)
(* the method leaves behind, so that an event which runs several methods   *)
(* (a click on "+" runs distributeCards and then handleCardSelection) is   *)
(* one action.  Each action stores in `last` the event and the record at   *)
(* handler entry, which turns every statement about what one handler does  *)
(* into a state predicate.                                                 *)
(*                                                                         *)
(* Modelling decisions:                                                    *)
(*  - in Spec one Game object handles every event (the global `game` the   *)
(*    handlers of Card and Slot refer to); SpecPage is the page as its two *)
(*    scripts bootstrap it, with the Game object of the inline script in   *)
(*    the variables and the one of the DOMContentLoaded handler in second; *)
(*  - the payload of a drop is an input: handleCombinationSlotDrop and     *)
(*    handleDrop parse whatever card the dataTransfer carries;             *)
(*  - responses are well formed: the rows of data.move are arrays of       *)
(*    cards of the request or null;                                        *)
(*  - the settings menu, full-screen mode, the training-progress text and  *)
(*    resetAI are left out; none of them touches a slot or a zone set.     *)
(***************************************************************************)
EXTENDS Integers, Sequences, FiniteSets, TLC

VARIABLES
    combinationSlots,   \* Game.combinationSlots[i].card, i = 0..NumCombinationSlots-1
    board,              \* Board.rows: line -> (index -> card)
    unavailableCards,   \* Game.unavailableCards (set of card keys)
    discardedCards,     \* Game.discardedCards (set of card keys)
    selectedRank,       \* Game.selectedRank
    selectedSuit,       \* Game.selectedSuit
    unavailableRanks,   \* rank selector items carrying the class 'unavailable'
    unavailableSuits,   \* suit selector items carrying the class 'unavailable'
    totalRoyalty,       \* text of the #total-royalty element
    pending,            \* fetch() calls whose promise has not settled, in issue order
    sent,               \* requests issued by the handler that ran last
    alerts,             \* alert() calls made by the handler that ran last
    events,             \* number of events handled so far
    last,               \* the event handled last and the state at its entry
    second,             \* the Game object the DOMContentLoaded handler builds
    receivers           \* <<event, Game object called, object owning the slots it used>>

vars == <<combinationSlots, board, unavailableCards, discardedCards, selectedRank,
          selectedSuit, unavailableRanks, unavailableSuits, totalRoyalty,
          pending, sent, alerts, events, last, second, receivers>>

----------------------------------------------------------------------------
(* Bounds of the model *)

\* staging slots of the model (setupCombinationArea builds 17)
NumCombinationSlots == 2
\* fetch() calls that may be outstanding at once
MaxPending == 2
\* events (clicks, drops, double-clicks, settled promises) in one behaviour
MaxEvents == 5

\* the part of the 52-card deck the events of the model draw from; h and d
\* stand for the heart and the diamond glyph of the page
Ranks == {"A", "K"}
Suits == {"h", "d"}
\* the board slots that drops aim at and at which the row of a move starts
TargetLines == {"top"}
StartIndices == {0}
\* the indices at which the server starts the row of a move: from index 2 a
\* row of two cards is longer than the three slots of the top row
MoveStarts == {0, 2}

(* Program constants *)
TopSize == 3
MiddleSize == 5
BottomSize == 5

----------------------------------------------------------------------------
(* Cards *)

Null == "null"
NoCard == [rank |-> "", suit |-> ""]
Deck == [rank : Ranks, suit : Suits]

getCardKey(card) == card.rank \o card.suit

\* the inverse getGameStateFromDOM applies to a key: /([0-9JQKA]+)([suit])/
ParseKey(key) ==
    IF \E c \in Deck : getCardKey(c) = key
    THEN CHOOSE c \in Deck : getCardKey(c) = key
    ELSE NoCard

LineSet == {"top", "middle", "bottom"}
RowSize(line) ==
    CASE line = "top" -> TopSize
      [] line = "middle" -> MiddleSize
      [] line = "bottom" -> BottomSize

CombIdx == 0..(NumCombinationSlots - 1)
RowIdx(line) == 0..(RowSize(line) - 1)

EmptyCombination == [i \in CombIdx |-> NoCard]
EmptyBoard == [line \in LineSet |-> [i \in RowIdx(line) |-> NoCard]]

\* Array.prototype.filter over the slots in index order
RECURSIVE FilledFrom(_, _, _)
FilledFrom(slots, i, n) ==
    IF i >= n THEN <<>>
    ELSE IF slots[i] # NoCard
         THEN <<slots[i]>> \o FilledFrom(slots, i + 1, n)
         ELSE FilledFrom(slots, i + 1, n)

RECURSIVE IndicesFrom(_, _, _)
IndicesFrom(slots, i, n) ==
    IF i >= n THEN <<>>
    ELSE IF slots[i] # NoCard
         THEN <<i>> \o IndicesFrom(slots, i + 1, n)
         ELSE IndicesFrom(slots, i + 1, n)

SeqToSet(s) == {s[i] : i \in 1..Len(s)}

----------------------------------------------------------------------------
(* The Game object as a record *)

Cur ==
    [combinationSlots |-> combinationSlots,
     board            |-> board,
     unavailableCards |-> unavailableCards,
     discardedCards   |-> discardedCards,
     selectedRank     |-> selectedRank,
     selectedSuit     |-> selectedSuit,
     unavailableRanks |-> unavailableRanks,
     unavailableSuits |-> unavailableSuits,
     totalRoyalty     |-> totalRoyalty,
     sent             |-> <<>>,
     alerts           |-> <<>>]

\* new Game(); game.init()
NewGame ==
    [combinationSlots |-> EmptyCombination,
     board            |-> EmptyBoard,
     unavailableCards |-> {},
     discardedCards   |-> {},
     selectedRank     |-> Null,
     selectedSuit     |-> Null,
     unavailableRanks |-> {},
     unavailableSuits |-> {},
     totalRoyalty     |-> "",
     sent             |-> <<>>,
     alerts           |-> <<>>]

----------------------------------------------------------------------------
(* Game.updateSelectorAvailability *)

cardAvailability(g, key) ==
    key \notin g.unavailableCards /\ key \notin g.discardedCards

updateSelectorAvailability(g) ==
    [g EXCEPT
        !.unavailableRanks =
            {r \in Ranks :
                ~ \E s \in Suits : cardAvailability(g, getCardKey([rank |-> r, suit |-> s]))},
        !.unavailableSuits =
            {s \in Suits :
                ~ \E r \in Ranks : cardAvailability(g, getCardKey([rank |-> r, suit |-> s]))}]

(* Game.getGameStateFromDOM *)
getGameStateFromDOM(g) ==
    [selected_cards  |-> FilledFrom(g.combinationSlots, 0, NumCombinationSlots),
     board           |-> [line \in LineSet |-> FilledFrom(g.board[line], 0, RowSize(line))],
     discarded_cards |-> {ParseKey(k) : k \in g.discardedCards}]

NoRemoved == <<>>

Request(url, from, gameState, removed) ==
    [url             |-> url,
     from            |-> from,
     selected_cards  |-> gameState.selected_cards,
     board           |-> gameState.board,
     discarded_cards |-> gameState.discarded_cards,
     removed_cards   |-> removed]

(* Game.updateGameStateAndSend: the part that runs inside the calling handler *)
updateGameStateAndSend(g) ==
    [g EXCEPT !.sent = Append(@, Request("/update_state", "updateGameStateAndSend",
                                         getGameStateFromDOM(g), NoRemoved))]

----------------------------------------------------------------------------
(* Game.handleCardSelection *)

\* the empty staging slot of the highest index instead of the first one
FirstEmpty_last(slots) ==
    IF \E i \in CombIdx : slots[i] = NoCard
    THEN CHOOSE i \in CombIdx :
            slots[i] = NoCard /\ \A j \in CombIdx : j > i => slots[j] # NoCard
    ELSE NumCombinationSlots

\* the first empty staging slot, NumCombinationSlots when find() returns undefined
FirstEmpty(slots) ==
    IF \E i \in CombIdx : slots[i] = NoCard
    THEN CHOOSE i \in CombIdx : slots[i] = NoCard /\ \A j \in 0..(i - 1) : slots[j] # NoCard
    ELSE NumCombinationSlots

\* a click that selects the value of the element whatever was selected
ToggleSelection_selectOnly(g, el) ==
    IF el.kind = "rank"
    THEN [g EXCEPT !.selectedRank = el.value]
    ELSE IF el.kind = "suit"
    THEN [g EXCEPT !.selectedSuit = el.value]
    ELSE g

\* lines 257-275: the toggle; el.kind is "rank", "suit" or "button"
ToggleSelection(g, el) ==
    IF el.kind = "rank"
    THEN [g EXCEPT !.selectedRank = IF g.selectedRank = el.value THEN Null ELSE el.value]
    ELSE IF el.kind = "suit"
    THEN [g EXCEPT !.selectedSuit = IF g.selectedSuit = el.value THEN Null ELSE el.value]
    ELSE g

\* lines 277-292: auto-placement of the selected key
PlaceSelection(g) ==
    IF g.selectedRank # Null /\ g.selectedSuit # Null
    THEN LET card == [rank |-> g.selectedRank, suit |-> g.selectedSuit]
             cardKey == getCardKey(card)
             emptySlot == FirstEmpty(g.combinationSlots)
         IN IF cardKey \notin g.unavailableCards /\ cardKey \notin g.discardedCards
               /\ emptySlot < NumCombinationSlots
            THEN updateSelectorAvailability(
                    [g EXCEPT !.combinationSlots[emptySlot] = card,
                              !.unavailableCards = @ \cup {cardKey},
                              !.selectedRank = Null,
                              !.selectedSuit = Null])
            ELSE g
    ELSE g

ElementUnavailable(g, el) ==
    \/ el.kind = "rank" /\ el.value \in g.unavailableRanks
    \/ el.kind = "suit" /\ el.value \in g.unavailableSuits

handleCardSelection(g, el) ==
    IF ElementUnavailable(g, el) THEN g
    ELSE PlaceSelection(ToggleSelection(g, el))

\* a drop that does not look at the card the slot holds
handleCombinationSlotDrop_overwrites(g, cardData, i) ==
    LET cardKey == getCardKey(cardData)
    IN IF cardKey \notin g.unavailableCards /\ cardKey \notin g.discardedCards
       THEN updateSelectorAvailability(
               [g EXCEPT !.combinationSlots[i] = cardData,
                         !.unavailableCards = @ \cup {cardKey},
                         !.selectedRank = Null,
                         !.selectedSuit = Null])
       ELSE g

(* Game.handleCombinationSlotDrop *)
handleCombinationSlotDrop(g, cardData, i) ==
    LET cardKey == getCardKey(cardData)
    IN IF cardKey \notin g.unavailableCards /\ cardKey \notin g.discardedCards
          /\ g.combinationSlots[i] = NoCard
       THEN updateSelectorAvailability(
               [g EXCEPT !.combinationSlots[i] = cardData,
                         !.unavailableCards = @ \cup {cardKey},
                         !.selectedRank = Null,
                         !.selectedSuit = Null])
       ELSE g

\* a drop onto the board without line 319
handleDrop_leavesKeyAvailable(g, cardData, line, i) ==
    LET cardKey == getCardKey(cardData)
    IN IF cardKey \notin g.unavailableCards /\ cardKey \notin g.discardedCards
          /\ g.board[line][i] = NoCard
       THEN updateSelectorAvailability(
               [g EXCEPT !.board[line][i] = cardData,
                         !.selectedRank = Null,
                         !.selectedSuit = Null])
       ELSE g

\* a drop onto the board that reports the new state to the server
handleDrop_sendsState(g, cardData, line, i) ==
    LET cardKey == getCardKey(cardData)
    IN IF cardKey \notin g.unavailableCards /\ cardKey \notin g.discardedCards
          /\ g.board[line][i] = NoCard
       THEN updateGameStateAndSend(updateSelectorAvailability(
               [g EXCEPT !.board[line][i] = cardData,
                         !.unavailableCards = @ \cup {cardKey},
                         !.selectedRank = Null,
                         !.selectedSuit = Null]))
       ELSE g

(* Game.handleDrop *)
handleDrop(g, cardData, line, i) ==
    LET cardKey == getCardKey(cardData)
    IN IF cardKey \notin g.unavailableCards /\ cardKey \notin g.discardedCards
          /\ g.board[line][i] = NoCard
       THEN updateSelectorAvailability(
               [g EXCEPT !.board[line][i] = cardData,
                         !.unavailableCards = @ \cup {cardKey},
                         !.selectedRank = Null,
                         !.selectedSuit = Null])
       ELSE g

----------------------------------------------------------------------------
(* Game.handleDoubleClick *)

\* lines 334-343: index of the first slot holding the card, -1 when none does
FindCard(slots, cardData) ==
    IF \E i \in CombIdx : slots[i] = cardData
    THEN CHOOSE i \in CombIdx : slots[i] = cardData /\ \A j \in 0..(i - 1) : slots[j] # cardData
    ELSE -1

\* lines 354-359: filledSlots holds Slot objects, so the card put at position
\* index is the one the index-th of them holds when the refill runs, which is
\* after line 351 has cleared every slot
RefillSource(beforeClear, afterClear) == afterClear

\* lines 347-359: filter, clear all, refill
Redistribute(slots) ==
    LET filledSlots == IndicesFrom(slots, 0, NumCombinationSlots)
        cleared == EmptyCombination
        source == RefillSource(slots, cleared)
    IN [i \in CombIdx |->
            IF i + 1 <= Len(filledSlots) /\ source[filledSlots[i + 1]] # NoCard
            THEN source[filledSlots[i + 1]]
            ELSE cleared[i]]

\* a double-click that discards the card, as removeSelectedCards does
handleDoubleClick_discards(g, cardData) ==
    LET cardKey == getCardKey(cardData)
    IN IF cardKey \in g.unavailableCards
       THEN updateGameStateAndSend(
               [g EXCEPT !.unavailableCards = @ \ {cardKey},
                         !.discardedCards = @ \cup {cardKey},
                         !.combinationSlots = EmptyCombination])
       ELSE g

\* a double-click that leaves the selector marks as they were
handleDoubleClick_noUpdate(g, cardData) ==
    LET cardKey == getCardKey(cardData)
    IN IF cardKey \in g.unavailableCards
       THEN updateGameStateAndSend(
               [g EXCEPT !.unavailableCards = @ \ {cardKey},
                         !.combinationSlots = EmptyCombination])
       ELSE g

handleDoubleClick(g, cardData) ==
    LET cardKey == getCardKey(cardData)
    IN IF cardKey \in g.unavailableCards
       THEN LET g1 == updateSelectorAvailability(
                         [g EXCEPT !.unavailableCards = @ \ {cardKey}])
                removedSlotIndex == FindCard(g1.combinationSlots, cardData)
                g2 == IF removedSlotIndex # -1
                      THEN [g1 EXCEPT !.combinationSlots =
                               Redistribute([g1.combinationSlots EXCEPT
                                                ![removedSlotIndex] = NoCard])]
                      ELSE g1
            IN updateGameStateAndSend(g2)
       ELSE g

----------------------------------------------------------------------------
(* Board.placeCards *)

\* the last slot of a row takes the last entry of a longer row array
MoveEntry_overflowIntoLast(moveData, line, i) ==
    IF i = RowSize(line) - 1 /\ Len(moveData[line]) > RowSize(line)
    THEN moveData[line][Len(moveData[line])]
    ELSE IF i + 1 <= Len(moveData[line]) THEN moveData[line][i + 1] ELSE NoCard

\* the entry of a row array of the move at a 0-based index, NoCard for null
\* and for an index past the end of the array
MoveEntry(moveData, line, i) ==
    IF i + 1 <= Len(moveData[line]) THEN moveData[line][i + 1] ELSE NoCard

\* the slots of the non-null entries, without the test of line 155 that the
\* slot is empty
PlacedSlots_overwrites(g, moveData) ==
    {<<line, i>> \in {<<l, j>> \in LineSet \X (0..(BottomSize - 1)) : j \in RowIdx(l)} :
        MoveEntry(moveData, line, i) # NoCard}

\* lines 150-161: the slots the move fills
PlacedSlots(g, moveData) ==
    {<<line, i>> \in {<<l, j>> \in LineSet \X (0..(BottomSize - 1)) : j \in RowIdx(l)} :
        MoveEntry(moveData, line, i) # NoCard /\ g.board[line][i] = NoCard}

BoardKeys(b) ==
    {getCardKey(b[line][i]) : <<line, i>> \in
        {<<l, j>> \in LineSet \X (0..(BottomSize - 1)) : j \in RowIdx(l) /\ b[l][j] # NoCard}}

placeCards(g, moveData) ==
    LET placed == PlacedSlots(g, moveData)
        newBoard == [line \in LineSet |-> [i \in RowIdx(line) |->
                        IF <<line, i>> \in placed
                        THEN MoveEntry(moveData, line, i)
                        ELSE g.board[line][i]]]
        placedKeys == {getCardKey(MoveEntry(moveData, p[1], p[2])) : p \in placed}
    IN [g EXCEPT !.board = newBoard,
                 !.unavailableCards = @ \cup placedKeys,
                 !.discardedCards = @ \cup placedKeys \cup BoardKeys(newBoard)]

\* line 611 with the comment signs removed
resetCombinationArea_clearsDiscarded(g) ==
    updateSelectorAvailability(
        [g EXCEPT !.combinationSlots = EmptyCombination,
                  !.unavailableCards = {},
                  !.discardedCards = {}])

(* Game.resetCombinationArea *)
resetCombinationArea(g) ==
    updateSelectorAvailability(
        [g EXCEPT !.combinationSlots = EmptyCombination,
                  !.unavailableCards = {}])

\* a reset without line 619
resetTraining_keepsDiscarded(g) ==
    LET g1 == [g EXCEPT !.board = EmptyBoard,
                        !.combinationSlots = EmptyCombination,
                        !.unavailableCards = {},
                        !.selectedRank = Null,
                        !.selectedSuit = Null,
                        !.unavailableRanks = {},
                        !.unavailableSuits = {},
                        !.totalRoyalty = ""]
    IN [g1 EXCEPT !.sent = Append(@, [url |-> "/update_state",
                                      from |-> "updateGameStateAndSend",
                                      selected_cards |-> <<>>,
                                      board |-> [line \in LineSet |-> <<>>],
                                      discarded_cards |-> {},
                                      removed_cards |-> <<>>])]

\* a reset without lines 623-627
resetTraining_keepsRoyalty(g) ==
    LET g1 == resetCombinationArea([g EXCEPT !.board = EmptyBoard])
        g2 == [g1 EXCEPT !.unavailableCards = {},
                         !.discardedCards = {},
                         !.selectedRank = Null,
                         !.selectedSuit = Null,
                         !.unavailableRanks = {},
                         !.unavailableSuits = {}]
    IN updateGameStateAndSend(g2)

(* Game.resetTraining *)
resetTraining(g) ==
    LET g1 == resetCombinationArea([g EXCEPT !.board = EmptyBoard])
        g2 == [g1 EXCEPT !.unavailableCards = {},
                         !.discardedCards = {},
                         !.selectedRank = Null,
                         !.selectedSuit = Null,
                         !.unavailableRanks = {},
                         !.unavailableSuits = {},
                         !.totalRoyalty = ""]
    IN updateGameStateAndSend(g2)

----------------------------------------------------------------------------
(* Game.distributeCards *)

EmptyGameState ==
    [selected_cards  |-> <<>>,
     board           |-> [line \in LineSet |-> <<>>],
     discarded_cards |-> {}]

\* Game.updateTrainingProgress: a GET that carries no state
updateTrainingProgress(g) ==
    [g EXCEPT !.sent = Append(@, Request("/training_progress", "updateTrainingProgress",
                                         EmptyGameState, NoRemoved))]

\* a submit that is ignored while an /ai_move request is outstanding
distributeCards_oneAtATime(g) ==
    LET gameState == getGameStateFromDOM(g)
        numCards == Len(gameState.selected_cards)
    IN IF \E k \in 1..Len(pending) : pending[k].url = "/ai_move"
       THEN g
       ELSE IF numCards > 0
       THEN [g EXCEPT !.sent = Append(@, Request("/ai_move", "distributeCards",
                                                 gameState, NoRemoved))]
       ELSE [g EXCEPT !.alerts = Append(@, "Please select cards to add.")]

\* lines 468-485 and 543-545: the part that runs in the click handler
distributeCards(g) ==
    LET gameState == getGameStateFromDOM(g)
        numCards == Len(gameState.selected_cards)
    IN IF numCards > 0
       THEN [g EXCEPT !.sent = Append(@, Request("/ai_move", "distributeCards",
                                                 gameState, NoRemoved))]
       ELSE [g EXCEPT !.alerts = Append(@, "Please select cards to add.")]

\* lines 501-511: the keys of the non-null cards of the move
MoveKeys(moveData) ==
    {getCardKey(moveData[line][i]) : <<line, i>> \in
        {<<l, j>> \in LineSet \X (1..(BottomSize + 1)) :
            j <= Len(moveData[l]) /\ moveData[l][j] # NoCard}}

\* the game_over branch taken whatever the flag says
AfterPlacement_neverClears(g, data) ==
    [g EXCEPT !.totalRoyalty = "Total Royalty",
              !.alerts = Append(@, "Game over!")]

\* lines 514-532
AfterPlacement(g, data) ==
    IF data.game_over
    THEN [g EXCEPT !.totalRoyalty = "Total Royalty",
                   !.alerts = Append(@, "Game over!")]
    ELSE [resetCombinationArea(g) EXCEPT !.totalRoyalty = ""]

\* the move of the body applied without the test of data.error
distributeCardsThen_ignoresError(g, data) ==
    LET g1 == [g EXCEPT !.discardedCards = @ \cup MoveKeys(data.move)]
        g2 == placeCards(g1, data.move)
        g3 == AfterPlacement(g2, data)
        g4 == updateGameStateAndSend(g3)
    IN updateTrainingProgress(updateSelectorAvailability(g4))

\* lines 494-538: the second then() of the /ai_move promise chain
distributeCardsThen(g, data) ==
    IF data.error
    THEN [g EXCEPT !.alerts = Append(@, "data.error")]
    ELSE LET g1 == [g EXCEPT !.discardedCards = @ \cup MoveKeys(data.move)]
             g2 == placeCards(g1, data.move)
             g3 == AfterPlacement(g2, data)
             g4 == updateGameStateAndSend(g3)
         IN updateTrainingProgress(updateSelectorAvailability(g4))

\* a catch() that submits the staged cards once more
distributeCardsCatch_retries(g) ==
    [g EXCEPT !.alerts = Append(@, "An error occurred while getting the AI move."),
              !.sent = Append(@, Request("/ai_move", "distributeCards",
                                         getGameStateFromDOM(g), NoRemoved))]

\* lines 539-542: catch() of the /ai_move promise chain
distributeCardsCatch(g) ==
    [g EXCEPT !.alerts = Append(@, "An error occurred while getting the AI move.")]

----------------------------------------------------------------------------
(* Game.removeSelectedCards *)

\* lines 569-575: filter, clear all, refill from the slots as they are then
RedistributeAfterRemoval(slots) ==
    LET filledSlots == IndicesFrom(slots, 0, NumCombinationSlots)
    IN [i \in CombIdx |->
            IF i + 1 <= Len(filledSlots) THEN EmptyCombination[filledSlots[i + 1]]
            ELSE NoCard]

removeSelectedCards(g) ==
    LET removedCards == FilledFrom(g.combinationSlots, 0, NumCombinationSlots)
        removedKeys == {getCardKey(removedCards[i]) : i \in 1..Len(removedCards)}
        slotsChanged == Len(removedCards) > 0
        g1 == [g EXCEPT !.unavailableCards = @ \ removedKeys,
                        !.discardedCards = @ \cup removedKeys,
                        !.combinationSlots = EmptyCombination]
        g2 == IF slotsChanged
              THEN [g1 EXCEPT !.combinationSlots = RedistributeAfterRemoval(@)]
              ELSE g1
        g3 == updateSelectorAvailability(g2)
    IN IF slotsChanged /\ Len(removedCards) > 0
       THEN [g3 EXCEPT !.sent = Append(@, Request("/update_state", "removeSelectedCards",
                                                  getGameStateFromDOM(g3), removedCards))]
       ELSE g3

(* Game.saveSettings: the part that runs in the click handler *)
saveSettings(g) ==
    [g EXCEPT !.sent = Append(@, Request("/update_state", "saveSettings",
                                         EmptyGameState, <<>>))]

(* The then()/catch() chains of the three /update_state requests *)
Outcomes == {"ok", "http_error", "network_error", "error_field"}

\* lines 438-453
updateGameStateAndSendSettled(g, outcome) ==
    CASE outcome = "ok" -> g
      [] outcome = "error_field" ->
            [g EXCEPT !.alerts = Append(@, "Error updating game state: data.error")]
      [] OTHER ->
            [g EXCEPT !.alerts = Append(@, "An error occurred while updating the game state.")]

\* lines 590-604
removeSelectedCardsSettled(g, outcome) ==
    CASE outcome = "error_field" ->
            [g EXCEPT !.alerts = Append(@, "Error updating state: data.error")]
      [] OTHER -> g

\* lines 650-667 (the menu panel that toggleMenu opens and closes is not modelled)
saveSettingsSettled(g, outcome) ==
    CASE outcome = "ok" -> [g EXCEPT !.alerts = Append(@, "settings saved")]
      [] outcome = "error_field" -> [g EXCEPT !.alerts = Append(@, "settings not saved")]
      [] OTHER -> [g EXCEPT !.alerts = Append(@, "An error occurred while saving settings.")]

----------------------------------------------------------------------------
(* The server, as far as the client can tell *)

RECURSIVE Nulls(_)
Nulls(n) == IF n = 0 THEN <<>> ELSE <<NoCard>> \o Nulls(n - 1)

NoMove == [line \in LineSet |-> <<>>]

\* the moves the server may answer a request with: the staged cards of the
\* request, in one row, after null entries up to a start index
ServerMoves(selected) ==
    {[line \in LineSet |-> IF line = target THEN Nulls(start) \o selected ELSE <<>>] :
        <<target, start>> \in TargetLines \X MoveStarts}

NoData == [error |-> FALSE, move |-> NoMove, game_over |-> FALSE]

----------------------------------------------------------------------------
(* Events *)

Event(op, card, line, index, outcome, data) ==
    [op |-> op, card |-> card, line |-> line, index |-> index,
     outcome |-> outcome, data |-> data, pre |-> Cur, prePending |-> pending]

PlusButton == [kind |-> "button", value |-> "+"]
MinusButton == [kind |-> "button", value |-> "-"]

\* the fetch() calls of a handler whose settlement the model follows
RECURSIVE Tracked(_)
Tracked(requests) ==
    IF requests = <<>> THEN <<>>
    ELSE LET r == Head(requests)
         IN IF r.url = "/training_progress" THEN Tracked(Tail(requests))
            ELSE <<[url |-> r.url, from |-> r.from,
                    selected_cards |-> IF r.url = "/ai_move" THEN r.selected_cards ELSE <<>>]>>
                 \o Tracked(Tail(requests))

Commit(g, ev, stillPending) ==
    /\ Len(stillPending) + Len(Tracked(g.sent)) <= MaxPending
    /\ combinationSlots' = g.combinationSlots
    /\ board' = g.board
    /\ unavailableCards' = g.unavailableCards
    /\ discardedCards' = g.discardedCards
    /\ selectedRank' = g.selectedRank
    /\ selectedSuit' = g.selectedSuit
    /\ unavailableRanks' = g.unavailableRanks
    /\ unavailableSuits' = g.unavailableSuits
    /\ totalRoyalty' = g.totalRoyalty
    /\ sent' = g.sent
    /\ alerts' = g.alerts
    /\ pending' = stillPending \o Tracked(g.sent)
    /\ events' = events + 1
    /\ last' = ev
    /\ UNCHANGED <<second, receivers>>

\* the page holds no Game object besides the one whose fields the variables are
NoGame == [none |-> TRUE]

InitGame ==
    /\ combinationSlots = NewGame.combinationSlots
    /\ board = NewGame.board
    /\ unavailableCards = NewGame.unavailableCards
    /\ discardedCards = NewGame.discardedCards
    /\ selectedRank = NewGame.selectedRank
    /\ selectedSuit = NewGame.selectedSuit
    /\ unavailableRanks = NewGame.unavailableRanks
    /\ unavailableSuits = NewGame.unavailableSuits
    /\ totalRoyalty = NewGame.totalRoyalty
    /\ pending = <<>>
    /\ sent = <<>>
    /\ alerts = <<>>
    /\ events = 0
    /\ last = [op |-> "init", card |-> NoCard, line |-> "", index |-> 0,
               outcome |-> "", data |-> NoData, pre |-> NewGame, prePending |-> <<>>]

Init ==
    /\ InitGame
    /\ second = NoGame
    /\ receivers = {}

\* click on a rank selector item
ClickRank ==
    \E r \in Ranks :
        /\ events < MaxEvents
        /\ Commit(handleCardSelection(Cur, [kind |-> "rank", value |-> r]),
                  Event("clickRank", [rank |-> r, suit |-> ""], "", 0, "", NoData), pending)

\* click on a suit selector item
ClickSuit ==
    \E s \in Suits :
        /\ events < MaxEvents
        /\ Commit(handleCardSelection(Cur, [kind |-> "suit", value |-> s]),
                  Event("clickSuit", [rank |-> "", suit |-> s], "", 0, "", NoData), pending)

\* drop of a card payload onto a staging slot
DropOnCombinationSlot ==
    \E cardData \in Deck, i \in CombIdx :
        /\ events < MaxEvents
        /\ Commit(handleCombinationSlotDrop(Cur, cardData, i),
                  Event("dropCombination", cardData, "", i, "", NoData), pending)

\* drop of a card payload onto a board slot
DropOnBoardSlot ==
    \E cardData \in Deck, line \in TargetLines, i \in StartIndices :
        /\ events < MaxEvents
        /\ i \in RowIdx(line)
        /\ Commit(handleDrop(Cur, cardData, line, i),
                  Event("dropBoard", cardData, line, i, "", NoData), pending)

\* dblclick on the card element in a staging slot
DoubleClickCard ==
    \E i \in CombIdx :
        /\ events < MaxEvents
        /\ combinationSlots[i] # NoCard
        /\ Commit(handleDoubleClick(Cur, combinationSlots[i]),
                  Event("doubleClick", combinationSlots[i], "", i, "", NoData), pending)

\* click on "+": the onclick attribute, then the listener of addGlobalEventListeners
ClickPlus ==
    /\ events < MaxEvents
    /\ Commit(handleCardSelection(distributeCards(Cur), PlusButton),
              Event("clickPlus", NoCard, "", 0, "", NoData), pending)

\* click on "-": the onclick attribute, then the listener of addGlobalEventListeners
ClickMinus ==
    /\ events < MaxEvents
    /\ Commit(handleCardSelection(removeSelectedCards(Cur), MinusButton),
              Event("clickMinus", NoCard, "", 0, "", NoData), pending)

\* click on the reset button
ClickReset ==
    /\ events < MaxEvents
    /\ Commit(resetTraining(Cur), Event("clickReset", NoCard, "", 0, "", NoData), pending)

\* click on the Ok button of the settings
ClickSaveSettings ==
    /\ events < MaxEvents
    /\ Commit(saveSettings(Cur), Event("clickSaveSettings", NoCard, "", 0, "", NoData),
              pending)

Without(seq, k) == SubSeq(seq, 1, k - 1) \o SubSeq(seq, k + 1, Len(seq))

\* the promise of an /ai_move request settles
AiMoveSettled ==
    \E k \in 1..Len(pending) :
        /\ events < MaxEvents
        /\ pending[k].url = "/ai_move"
        /\ \/ \E move \in ServerMoves(pending[k].selected_cards), over \in BOOLEAN :
                LET data == [error |-> FALSE, move |-> move, game_over |-> over]
                IN Commit(distributeCardsThen(Cur, data),
                          Event("aiMoveSettled", NoCard, "", k, "ok", data),
                          Without(pending, k))
           \/ Commit(distributeCardsThen(Cur, [NoData EXCEPT !.error = TRUE]),
                     Event("aiMoveSettled", NoCard, "", k, "error_field",
                           [NoData EXCEPT !.error = TRUE]),
                     Without(pending, k))
           \/ \E outcome \in {"http_error", "network_error"} :
                Commit(distributeCardsCatch(Cur),
                       Event("aiMoveSettled", NoCard, "", k, outcome, NoData),
                       Without(pending, k))

\* the promise of an /update_state request settles
UpdateStateSettled ==
    \E k \in 1..Len(pending), outcome \in Outcomes :
        /\ events < MaxEvents
        /\ pending[k].url = "/update_state"
        /\ LET g == CASE pending[k].from = "updateGameStateAndSend" ->
                            updateGameStateAndSendSettled(Cur, outcome)
                      [] pending[k].from = "removeSelectedCards" ->
                            removeSelectedCardsSettled(Cur, outcome)
                      [] pending[k].from = "saveSettings" ->
                            saveSettingsSettled(Cur, outcome)
           IN Commit(g, Event("updateStateSettled", NoCard, pending[k].from, k, outcome, NoData),
                     Without(pending, k))

Next ==
    \/ ClickRank
    \/ ClickSuit
    \/ DropOnCombinationSlot
    \/ DropOnBoardSlot
    \/ DoubleClickCard
    \/ ClickPlus
    \/ ClickMinus
    \/ ClickReset
    \/ ClickSaveSettings
    \/ AiMoveSettled
    \/ UpdateStateSettled

Spec == Init /\ [][Next]_vars

----------------------------------------------------------------------------
(* The page as its two scripts bootstrap it.  The inline script of the     *)
(* template runs first: `let game = new Game(); game.init()` builds object *)
(* 1, the global `game`, whose fields are the variables of the module.     *)
(* The DOMContentLoaded handler of common.js then builds object 2 in a     *)
(* local variable; its Board.init and setupCombinationArea empty the row   *)
(* and staging containers and fill them with their own slot elements, so   *)
(* the slots the user sees, drops onto and double-clicks in are those of   *)
(* object 2.  Both init() calls bind a click listener to every selector    *)
(* item; Slot and Card listeners and the onclick attributes call `game`.   *)
(* The classes of the selector items are one DOM for both objects.         *)

InlineGame == 1
LoadedGame == 2

\* a Game record reading the marks of the selector items from another one
WithMarks(g, dom) ==
    [g EXCEPT !.unavailableRanks = dom.unavailableRanks,
              !.unavailableSuits = dom.unavailableSuits]

\* object 2 as stored: the marks are kept in the variables, its handlers send nothing
Stored(g) ==
    [g EXCEPT !.unavailableRanks = {}, !.unavailableSuits = {},
              !.sent = <<>>, !.alerts = <<>>]

\* the two click listeners of a selector item, in the order they were added
BothHandleCardSelection(g1, g2, el) ==
    LET r1 == handleCardSelection(g1, el)
        r2 == handleCardSelection(WithMarks(g2, r1), el)
    IN <<WithMarks(r1, r2), r2>>

SelectionReceivers ==
    {<<"handleCardSelection", InlineGame, InlineGame>>,
     <<"handleCardSelection", LoadedGame, LoadedGame>>}

PageCommit(g1, g2, ev, rcv) ==
    /\ Len(pending) + Len(Tracked(g1.sent)) <= MaxPending
    /\ combinationSlots' = g1.combinationSlots
    /\ board' = g1.board
    /\ unavailableCards' = g1.unavailableCards
    /\ discardedCards' = g1.discardedCards
    /\ selectedRank' = g1.selectedRank
    /\ selectedSuit' = g1.selectedSuit
    /\ unavailableRanks' = g1.unavailableRanks
    /\ unavailableSuits' = g1.unavailableSuits
    /\ totalRoyalty' = g1.totalRoyalty
    /\ sent' = g1.sent
    /\ alerts' = g1.alerts
    /\ pending' = pending \o Tracked(g1.sent)
    /\ events' = events + 1
    /\ last' = ev
    /\ second' = Stored(g2)
    /\ receivers' = receivers \cup rcv

PageInit ==
    /\ InitGame
    /\ second = Stored(NewGame)
    /\ receivers = {}

PageClickRank ==
    \E r \in Ranks :
        /\ events < MaxEvents
        /\ LET both == BothHandleCardSelection(Cur, second, [kind |-> "rank", value |-> r])
           IN PageCommit(both[1], both[2],
                         Event("clickRank", [rank |-> r, suit |-> ""], "", 0, "", NoData),
                         SelectionReceivers)

PageClickSuit ==
    \E s \in Suits :
        /\ events < MaxEvents
        /\ LET both == BothHandleCardSelection(Cur, second, [kind |-> "suit", value |-> s])
           IN PageCommit(both[1], both[2],
                         Event("clickSuit", [rank |-> "", suit |-> s], "", 0, "", NoData),
                         SelectionReceivers)

\* drop onto a staging slot of the page: game.handleCombinationSlotDrop(e, this)
\* runs in object 1 with a slot of object 2
PageDropOnCombinationSlot ==
    \E cardData \in Deck, i \in CombIdx :
        /\ events < MaxEvents
        /\ LET r == handleCombinationSlotDrop(
                        [Cur EXCEPT !.combinationSlots = second.combinationSlots],
                        cardData, i)
           IN PageCommit([r EXCEPT !.combinationSlots = combinationSlots],
                         [second EXCEPT !.combinationSlots = r.combinationSlots],
                         Event("dropCombination", cardData, "", i, "", NoData),
                         {<<"handleCombinationSlotDrop", InlineGame, LoadedGame>>})

\* drop onto a board slot of the page: game.handleDrop(e, this)
PageDropOnBoardSlot ==
    \E cardData \in Deck, line \in TargetLines, i \in StartIndices :
        /\ events < MaxEvents
        /\ i \in RowIdx(line)
        /\ LET r == handleDrop([Cur EXCEPT !.board = second.board], cardData, line, i)
           IN PageCommit([r EXCEPT !.board = board],
                         [second EXCEPT !.board = r.board],
                         Event("dropBoard", cardData, line, i, "", NoData),
                         {<<"handleDrop", InlineGame, LoadedGame>>})

\* double-click on a card shown in a staging slot of the page
PageDoubleClickCard ==
    \E i \in CombIdx :
        /\ events < MaxEvents
        /\ second.combinationSlots[i] # NoCard
        /\ PageCommit(handleDoubleClick(Cur, second.combinationSlots[i]), second,
                      Event("doubleClick", second.combinationSlots[i], "", i, "", NoData),
                      {<<"handleDoubleClick", InlineGame, InlineGame>>})

PageClickPlus ==
    /\ events < MaxEvents
    /\ LET both == BothHandleCardSelection(distributeCards(Cur), second, PlusButton)
       IN PageCommit(both[1], both[2], Event("clickPlus", NoCard, "", 0, "", NoData),
                     {<<"distributeCards", InlineGame, InlineGame>>}
                        \cup SelectionReceivers)

PageClickMinus ==
    /\ events < MaxEvents
    /\ LET both == BothHandleCardSelection(removeSelectedCards(Cur), second, MinusButton)
       IN PageCommit(both[1], both[2], Event("clickMinus", NoCard, "", 0, "", NoData),
                     {<<"removeSelectedCards", InlineGame, InlineGame>>}
                        \cup SelectionReceivers)

PageClickReset ==
    /\ events < MaxEvents
    /\ PageCommit(resetTraining(Cur), second,
                  Event("clickReset", NoCard, "", 0, "", NoData),
                  {<<"resetTraining", InlineGame, InlineGame>>})

PageNext ==
    \/ PageClickRank
    \/ PageClickSuit
    \/ PageDropOnCombinationSlot
    \/ PageDropOnBoardSlot
    \/ PageDoubleClickCard
    \/ PageClickPlus
    \/ PageClickMinus
    \/ PageClickReset
    \/ AiMoveSettled
    \/ UpdateStateSettled

SpecPage == PageInit /\ [][PageNext]_vars

\* the staging slots shown on the page, which drop and double-click work with
PageSlots ==
    IF second = NoGame THEN combinationSlots ELSE second.combinationSlots

----------------------------------------------------------------------------
(* Vocabulary of the properties *)

Pre == last.pre

Empty(slots) == \A i \in DOMAIN slots : slots[i] = NoCard
Occupied(slots) == {i \in DOMAIN slots : slots[i] # NoCard}
IsPrefix(slots) == \A i \in Occupied(slots) : \A j \in 0..(i - 1) : j \in Occupied(slots)
StagedCards(slots) == {slots[i] : i \in Occupied(slots)}

BoardSlotIds == {<<line, i>> \in LineSet \X (0..(BottomSize - 1)) : i \in RowIdx(line)}
BoardEmpty(b) == \A p \in BoardSlotIds : b[p[1]][p[2]] = NoCard

Available(key) == key \notin unavailableCards /\ key \notin discardedCards
WasAvailable(key) == key \notin Pre.unavailableCards /\ key \notin Pre.discardedCards

SlotsAndZonesUnchanged ==
    /\ combinationSlots = Pre.combinationSlots
    /\ board = Pre.board
    /\ unavailableCards = Pre.unavailableCards
    /\ discardedCards = Pre.discardedCards

\* the slots, staging and board together, that hold a card of the given key
SlotsHolding(key) ==
    {<<"combination", i>> : i \in {j \in CombIdx : combinationSlots[j] # NoCard
                                        /\ getCardKey(combinationSlots[j]) = key}}
    \cup {p \in BoardSlotIds : board[p[1]][p[2]] # NoCard
                               /\ getCardKey(board[p[1]][p[2]]) = key}

UpdateRequests == {sent[k] : k \in {j \in 1..Len(sent) : sent[j].url = "/update_state"}}

\* the request carries the staging slots, the board and the discarded set of
\* the current state
CarriesCurrentState(r) ==
    /\ SeqToSet(r.selected_cards) = StagedCards(combinationSlots)
    /\ Len(r.selected_cards) = Cardinality(Occupied(combinationSlots))
    /\ \A line \in LineSet :
          /\ SeqToSet(r.board[line]) = StagedCards(board[line])
          /\ Len(r.board[line]) = Cardinality(Occupied(board[line]))
    /\ {getCardKey(c) : c \in r.discarded_cards} = discardedCards

----------------------------------------------------------------------------
(* C1: after every sequence of staging operations the occupied staging     *)
(* slots are a prefix 0..k-1 of the slots: no empty slot lies below an     *)
(* occupied one.                                                           *)
C1_OccupiedIsPrefix == IsPrefix(combinationSlots)

(* C2: a double-click on a staged card removes that card only: the other   *)
(* cards of a prefix-shaped staging area are afterwards at the lowest      *)
(* indices in their previous order, the higher slots are empty.            *)
C2_DoubleClickRemovesOne ==
    (last.op = "doubleClick" /\ IsPrefix(Pre.combinationSlots))
    => LET before == FilledFrom(Pre.combinationSlots, 0, NumCombinationSlots)
           after == FilledFrom(combinationSlots, 0, NumCombinationSlots)
       IN /\ after = Without(before, last.index + 1)
          /\ IsPrefix(combinationSlots)

(* C3: after every handler no key is in both the unavailable and the       *)
(* discarded set.                                                          *)
C3_ZonesDisjoint == unavailableCards \cap discardedCards = {}

(* C4: a card key occupies at most one slot among the staging slots and    *)
(* the board slots together.                                               *)
C4_KeyInOneSlot ==
    \A c \in Deck : Cardinality(SlotsHolding(getCardKey(c))) <= 1

(* C5: discard is monotone within a round: a handler other than            *)
(* resetTraining leaves every discarded key discarded, hence unavailable   *)
(* for selection.                                                          *)
C5_DiscardMonotone ==
    last.op # "clickReset"
    => /\ Pre.discardedCards \subseteq discardedCards
       /\ \A key \in Pre.discardedCards : ~ Available(key)

C5_Witness ==
    /\ last.op = "aiMoveSettled"
    /\ last.outcome = "ok"
    /\ ~ last.data.game_over
    /\ Pre.discardedCards # {}
    /\ Pre.discardedCards \subseteq discardedCards
    /\ Empty(combinationSlots)
    /\ ~ Empty(Pre.combinationSlots)

(* C6: a placement attempt (a pick completing a key, a drop onto a staging *)
(* slot, a drop onto a board slot) whose key is unavailable or discarded,  *)
(* or whose target slot is occupied, or, for the pick, with every staging  *)
(* slot full, changes no staging slot, no board slot and no zone set, and  *)
(* sends no request.                                                       *)
C6_PickCompletes ==
    \/ /\ last.op = "clickRank"
       /\ last.card.rank \notin Pre.unavailableRanks
       /\ Pre.selectedRank # last.card.rank
       /\ Pre.selectedSuit # Null
    \/ /\ last.op = "clickSuit"
       /\ last.card.suit \notin Pre.unavailableSuits
       /\ Pre.selectedSuit # last.card.suit
       /\ Pre.selectedRank # Null

C6_PickedKey ==
    IF last.op = "clickRank" THEN last.card.rank \o Pre.selectedSuit
    ELSE Pre.selectedRank \o last.card.suit

C6_Rejected ==
    \/ /\ C6_PickCompletes
       /\ \/ ~ WasAvailable(C6_PickedKey)
          \/ Occupied(Pre.combinationSlots) = CombIdx
    \/ /\ last.op = "dropCombination"
       /\ \/ ~ WasAvailable(getCardKey(last.card))
          \/ Pre.combinationSlots[last.index] # NoCard
    \/ /\ last.op = "dropBoard"
       /\ \/ ~ WasAvailable(getCardKey(last.card))
          \/ Pre.board[last.line][last.index] # NoCard

C6_RejectedPlacementIsNoOp ==
    C6_Rejected => (SlotsAndZonesUnchanged /\ sent = <<>>)

C6_Witness ==
    /\ C6_PickCompletes
    /\ WasAvailable(C6_PickedKey)
    /\ Occupied(Pre.combinationSlots) = CombIdx
    /\ SlotsAndZonesUnchanged
    /\ sent = <<>>

(* C7: staging an available card into an empty staging area and then       *)
(* double-clicking it leaves the key available and no staging slot         *)
(* occupied, with the board and the discarded set as before the two        *)
(* operations.  Stated per operation: the staging step leaves the card as  *)
(* the only staged one, unavailable and not discarded, board and discarded *)
(* set untouched; the double-click from such a state empties staging and   *)
(* releases the key, board and discarded set untouched.                    *)
C7_JustStaged(card) ==
    /\ last.op \in {"clickRank", "clickSuit", "dropCombination"}
    /\ Empty(Pre.combinationSlots)
    /\ WasAvailable(getCardKey(card))
    /\ StagedCards(combinationSlots) = {card}

C7_OnlyStaged(g, card) ==
    /\ StagedCards(g.combinationSlots) = {card}
    /\ Cardinality(Occupied(g.combinationSlots)) = 1
    /\ getCardKey(card) \in g.unavailableCards
    /\ getCardKey(card) \notin g.discardedCards

C7_RoundTrip ==
    \A card \in Deck :
        /\ C7_JustStaged(card)
           => /\ C7_OnlyStaged(Cur, card)
              /\ board = Pre.board
              /\ discardedCards = Pre.discardedCards
        /\ (last.op = "doubleClick" /\ last.card = card /\ C7_OnlyStaged(Pre, card))
           => /\ Empty(combinationSlots)
              /\ Available(getCardKey(card))
              /\ board = Pre.board
              /\ discardedCards = Pre.discardedCards

C7_Witness ==
    /\ last.op = "doubleClick"
    /\ C7_OnlyStaged(Pre, last.card)
    /\ Empty(combinationSlots)
    /\ Available(getCardKey(last.card))
    /\ ~ BoardEmpty(board)
    /\ discardedCards # {}

(* C8: when a successful /ai_move response with game_over false is         *)
(* applied, every non-null card of the move whose board slot was empty is  *)
(* in that slot, every non-null card of the move is discarded and not      *)
(* available, every staging slot is empty, and the handler sends an        *)
(* /update_state request with no selected cards and the updated board and  *)
(* discarded list.                                                         *)
C8_Applied ==
    /\ last.op = "aiMoveSettled"
    /\ last.outcome = "ok"
    /\ ~ last.data.game_over

C8_MoveCards ==
    {<<p, MoveEntry(last.data.move, p[1], p[2])>> : p \in
        {q \in BoardSlotIds : MoveEntry(last.data.move, q[1], q[2]) # NoCard}}

C8_AllMoveCards ==
    UNION {SeqToSet(last.data.move[line]) \ {NoCard} : line \in LineSet}

C8_AiMoveApplied ==
    C8_Applied
    => /\ \A mc \in C8_MoveCards :
             Pre.board[mc[1][1]][mc[1][2]] = NoCard
             => board[mc[1][1]][mc[1][2]] = mc[2]
       /\ \A card \in C8_AllMoveCards :
             /\ getCardKey(card) \in discardedCards
             /\ ~ Available(getCardKey(card))
       /\ Empty(combinationSlots)
       /\ Cardinality(UpdateRequests) = 1
       /\ \A r \in UpdateRequests : r.selected_cards = <<>> /\ CarriesCurrentState(r)

C8_Witness ==
    /\ C8_Applied
    /\ ~ Empty(Pre.combinationSlots)
    /\ \E mc \in C8_MoveCards :
          /\ Pre.board[mc[1][1]][mc[1][2]] = NoCard
          /\ board[mc[1][1]][mc[1][2]] = mc[2]
    /\ \E mc \in C8_MoveCards : Pre.board[mc[1][1]][mc[1][2]] # NoCard
    /\ Empty(combinationSlots)

(* C9: right after resetTraining every board slot and every staging slot   *)
(* is empty, both zone sets are empty, no rank and no suit is selected,    *)
(* and the /update_state request it sends carries that empty snapshot.     *)
C9_ResetClearsAll ==
    last.op = "clickReset"
    => /\ BoardEmpty(board)
       /\ Empty(combinationSlots)
       /\ unavailableCards = {}
       /\ discardedCards = {}
       /\ \A c \in Deck : Available(getCardKey(c))
       /\ selectedRank = Null
       /\ selectedSuit = Null
       /\ Cardinality(UpdateRequests) = 1
       /\ \A r \in UpdateRequests :
             /\ r.selected_cards = <<>>
             /\ \A line \in LineSet : r.board[line] = <<>>
             /\ r.discarded_cards = {}

C9_Witness ==
    /\ last.op = "clickReset"
    /\ ~ BoardEmpty(Pre.board)
    /\ ~ Empty(Pre.combinationSlots)
    /\ Pre.discardedCards # {}
    /\ Pre.unavailableCards # {}
    /\ BoardEmpty(board)
    /\ discardedCards = {}

(* C10: after every handler a rank selector is marked unavailable exactly  *)
(* when every key of that rank is unavailable or discarded, and a suit     *)
(* selector exactly when every key of that suit is.                        *)
C10_MarksMatchZones ==
    /\ \A r \in Ranks :
          r \in unavailableRanks
          <=> \A s \in Suits : ~ Available(getCardKey([rank |-> r, suit |-> s]))
    /\ \A s \in Suits :
          s \in unavailableSuits
          <=> \A r \in Ranks : ~ Available(getCardKey([rank |-> r, suit |-> s]))

C10_Witness ==
    /\ last.op = "doubleClick"
    /\ Pre.unavailableRanks # {}
    /\ unavailableRanks = {}
    /\ C10_MarksMatchZones

\* the requests of the latest handler that went to the given url
RequestsTo(url) == {k \in 1..Len(sent) : sent[k].url = url}

(* C11: a click on the submit button with no staged card sends no /ai_move *)
(* request, raises a notice and leaves the staging slots, the board slots  *)
(* and both zone sets unchanged; with at least one staged card it sends    *)
(* exactly one /ai_move request whose selected_cards are the staged cards  *)
(* in slot order.                                                          *)
C11_SubmitSendsStagedOrNothing ==
    last.op = "clickPlus"
    => LET staged == FilledFrom(Pre.combinationSlots, 0, NumCombinationSlots)
       IN IF staged = <<>>
          THEN /\ RequestsTo("/ai_move") = {}
               /\ alerts # <<>>
               /\ SlotsAndZonesUnchanged
          ELSE /\ Cardinality(RequestsTo("/ai_move")) = 1
               /\ \A k \in RequestsTo("/ai_move") : sent[k].selected_cards = staged

(* C12: when the response to an /ai_move or /update_state request is a     *)
(* non-success HTTP status, a thrown transport error or a body with an     *)
(* error field, the response handler leaves every staging slot, every      *)
(* board slot and both zone sets as they were when the response arrived,   *)
(* and sends no follow-up request.                                         *)
C12_FailedResponse ==
    /\ last.op \in {"aiMoveSettled", "updateStateSettled"}
    /\ last.outcome \in {"http_error", "network_error", "error_field"}

C12_FailedResponseIsNoOp ==
    C12_FailedResponse => (SlotsAndZonesUnchanged /\ sent = <<>>)

C12_Witness ==
    /\ last.op = "aiMoveSettled"
    /\ last.outcome = "error_field"
    /\ ~ Empty(Pre.combinationSlots)
    /\ combinationSlots = Pre.combinationSlots
    /\ alerts # <<>>
    /\ sent = <<>>

(* C13: every input action that changes the staging slots, the board slots *)
(* or a zone set (auto-placement by a rank or suit pick, a successful drop *)
(* onto a staging slot, a successful drop onto a board slot, double-click  *)
(* return, remove-selected, reset) sends, within the same handler, a       *)
(* request that carries the resulting state.                               *)
C13_InputActions ==
    {"clickRank", "clickSuit", "dropCombination", "dropBoard", "doubleClick",
     "clickMinus", "clickReset"}

C13_ChangeIsSent ==
    (last.op \in C13_InputActions /\ ~ SlotsAndZonesUnchanged)
    => \E r \in UpdateRequests : CarriesCurrentState(r)

(* C14: every /update_state request, whichever action sends it (reset,     *)
(* settings save, card removal, double-click return, follow-up after an AI *)
(* move), carries as selected_cards, board and discarded_cards the staged  *)
(* cards, the board contents and the discarded set the client holds at the *)
(* moment the request is sent.  The removal builds its request before the  *)
(* selection listener of the button runs: at that moment staging is empty, *)
(* the board is as before and the removed keys are discarded.              *)
C14_CarriesStateAfterRemoval(r) ==
    /\ r.selected_cards = <<>>
    /\ \A line \in LineSet :
          /\ SeqToSet(r.board[line]) = StagedCards(Pre.board[line])
          /\ Len(r.board[line]) = Cardinality(Occupied(Pre.board[line]))
    /\ {getCardKey(c) : c \in r.discarded_cards}
          = Pre.discardedCards
            \cup {getCardKey(c) : c \in StagedCards(Pre.combinationSlots)}

C14_UpdateCarriesState ==
    \A r \in UpdateRequests :
        IF last.op = "clickMinus"
        THEN C14_CarriesStateAfterRemoval(r)
        ELSE CarriesCurrentState(r)

(* C15: a click on the remove button with k >= 1 staged cards leaves every *)
(* staging slot empty, puts each of the k removed keys into the discarded  *)
(* set and out of the unavailable set, and sends exactly one /update_state *)
(* request whose removed_cards are exactly those k cards and whose         *)
(* selected_cards is empty; with no staged card it changes nothing and     *)
(* sends no request.                                                       *)
C15_RemoveSelected ==
    last.op = "clickMinus"
    => LET removed == StagedCards(Pre.combinationSlots)
           keys == {getCardKey(c) : c \in removed}
       IN IF removed = {}
          THEN SlotsAndZonesUnchanged /\ sent = <<>>
          ELSE /\ Empty(combinationSlots)
               /\ keys \subseteq discardedCards
               /\ keys \cap unavailableCards = {}
               /\ Len(sent) = 1
               /\ sent[1].url = "/update_state"
               /\ SeqToSet(sent[1].removed_cards) = removed
               /\ Len(sent[1].removed_cards) = Cardinality(Occupied(Pre.combinationSlots))
               /\ sent[1].selected_cards = <<>>

(* C16: the board always has exactly 3 top, 5 middle and 5 bottom slots,   *)
(* each holding at most one card; an AI move whose row arrays are longer   *)
(* than the row places nothing from beyond index 2 (top) or 4 (middle,     *)
(* bottom) and creates no slot: a slot the move changes holds the entry of *)
(* the row array at the slot's own index.                                  *)
C16_MoveApplied ==
    /\ last.op = "aiMoveSettled"
    /\ last.outcome = "ok"

C16_Overlong(line) == Len(last.data.move[line]) > RowSize(line)

C16_BoardShape ==
    /\ DOMAIN board = {"top", "middle", "bottom"}
    /\ DOMAIN board.top = 0..(TopSize - 1)
    /\ DOMAIN board.middle = 0..(MiddleSize - 1)
    /\ DOMAIN board.bottom = 0..(BottomSize - 1)
    /\ \A p \in BoardSlotIds : board[p[1]][p[2]] \in Deck \cup {NoCard}
    /\ C16_MoveApplied
       => \A p \in BoardSlotIds :
             board[p[1]][p[2]] # Pre.board[p[1]][p[2]]
             => /\ p[2] + 1 <= Len(last.data.move[p[1]])
                /\ board[p[1]][p[2]] = last.data.move[p[1]][p[2] + 1]

C16_Witness ==
    /\ C16_MoveApplied
    /\ \E line \in LineSet :
          /\ C16_Overlong(line)
          /\ last.data.move[line][Len(last.data.move[line])] # NoCard
          /\ last.data.move[line][Len(last.data.move[line])]
                \notin StagedCards(board[line])
          /\ board[line][RowSize(line) - 1] # Pre.board[line][RowSize(line) - 1]

(* C17: in every state reached after a handler has finished, a key is in   *)
(* the unavailable set if and only if it occupies a staging slot.          *)
C17_UnavailableIffStaged ==
    unavailableCards = {getCardKey(c) : c \in StagedCards(combinationSlots)}

(* C18: every key that occupies a board slot is in the discarded set,      *)
(* whether the card came from an AI move or from a drop onto the slot.     *)
C18_BoardKeysDiscarded == BoardKeys(board) \subseteq discardedCards

(* C19: applying an AI move never overwrites or empties a board slot: a    *)
(* slot that held a card before placeCards holds the same card afterwards, *)
(* a slot whose move entry is null or missing is unchanged, and only slots *)
(* that were empty and have a non-null entry change.                       *)
C19_MoveKeepsBoard ==
    (last.op = "aiMoveSettled" /\ last.outcome = "ok")
    => \A p \in BoardSlotIds :
          LET before == Pre.board[p[1]][p[2]]
              after == board[p[1]][p[2]]
              entry == MoveEntry(last.data.move, p[1], p[2])
          IN /\ before # NoCard => after = before
             /\ entry = NoCard => after = before
             /\ after # before => (before = NoCard /\ entry # NoCard)

C19_Witness ==
    /\ last.op = "aiMoveSettled"
    /\ last.outcome = "ok"
    /\ \E p \in BoardSlotIds :
          /\ Pre.board[p[1]][p[2]] # NoCard
          /\ MoveEntry(last.data.move, p[1], p[2]) # NoCard
          /\ MoveEntry(last.data.move, p[1], p[2]) # Pre.board[p[1]][p[2]]
          /\ board[p[1]][p[2]] = Pre.board[p[1]][p[2]]
    /\ \E p \in BoardSlotIds : board[p[1]][p[2]] # Pre.board[p[1]][p[2]]

(* C20: when a rank or suit click makes both a rank and a suit selected,   *)
(* the resulting key is available and some staging slot is empty, the card *)
(* is placed in the empty staging slot of the lowest index, its key        *)
(* becomes unavailable, both selections are cleared, and no other slot     *)
(* changes.                                                                *)
C20_PickPlaceable ==
    /\ C6_PickCompletes
    /\ WasAvailable(C6_PickedKey)
    /\ Occupied(Pre.combinationSlots) # CombIdx

C20_LowestEmpty ==
    CHOOSE i \in CombIdx :
        /\ i \notin Occupied(Pre.combinationSlots)
        /\ \A j \in CombIdx : j < i => j \in Occupied(Pre.combinationSlots)

C20_PickStagesAtLowestEmpty ==
    C20_PickPlaceable
    => /\ combinationSlots =
             [Pre.combinationSlots EXCEPT ![C20_LowestEmpty] = ParseKey(C6_PickedKey)]
       /\ getCardKey(combinationSlots[C20_LowestEmpty]) = C6_PickedKey
       /\ C6_PickedKey \in unavailableCards
       /\ selectedRank = Null
       /\ selectedSuit = Null
       /\ board = Pre.board

C20_Witness ==
    /\ C20_PickPlaceable
    /\ Cardinality(CombIdx \ Occupied(Pre.combinationSlots)) >= 2
    /\ combinationSlots[C20_LowestEmpty] # NoCard
    /\ Pre.combinationSlots[C20_LowestEmpty] = NoCard
    /\ C6_PickedKey \in unavailableCards

(* C21: rank and suit selection are independent toggles: a click on the    *)
(* selected rank (suit) deselects it, a click on another rank (suit)       *)
(* replaces the selection, a click on a rank changes the selected suit     *)
(* only when a card is auto-placed (and vice versa), and a click on a      *)
(* selector marked unavailable changes nothing.                            *)
C21_AutoPlaced == combinationSlots # Pre.combinationSlots

C21_RankClick ==
    last.op = "clickRank"
    => LET r == last.card.rank
       IN IF r \in Pre.unavailableRanks
          THEN Cur = Pre
          ELSE IF Pre.selectedRank = r
          THEN selectedRank = Null /\ selectedSuit = Pre.selectedSuit /\ ~ C21_AutoPlaced
          ELSE IF C21_AutoPlaced
          THEN /\ selectedRank = Null /\ selectedSuit = Null
               /\ [rank |-> r, suit |-> Pre.selectedSuit] \in StagedCards(combinationSlots)
          ELSE selectedRank = r /\ selectedSuit = Pre.selectedSuit

C21_SuitClick ==
    last.op = "clickSuit"
    => LET s == last.card.suit
       IN IF s \in Pre.unavailableSuits
          THEN Cur = Pre
          ELSE IF Pre.selectedSuit = s
          THEN selectedSuit = Null /\ selectedRank = Pre.selectedRank /\ ~ C21_AutoPlaced
          ELSE IF C21_AutoPlaced
          THEN /\ selectedRank = Null /\ selectedSuit = Null
               /\ [rank |-> Pre.selectedRank, suit |-> s] \in StagedCards(combinationSlots)
          ELSE selectedSuit = s /\ selectedRank = Pre.selectedRank

C21_IndependentToggles == C21_RankClick /\ C21_SuitClick

C21_Witness ==
    /\ last.op = "clickRank"
    /\ last.card.rank \notin Pre.unavailableRanks
    /\ Pre.selectedRank = last.card.rank
    /\ Pre.selectedSuit # Null
    /\ selectedRank = Null
    /\ selectedSuit = Pre.selectedSuit

(* C22: a successful drop of an available key onto an empty board slot     *)
(* places the card in exactly that slot, makes the key not available,      *)
(* changes no staging slot and sends no request to the server.             *)
C22_DropAccepted ==
    /\ last.op = "dropBoard"
    /\ WasAvailable(getCardKey(last.card))
    /\ Pre.board[last.line][last.index] = NoCard

C22_BoardDropBypassesSubmit ==
    C22_DropAccepted
    => /\ board = [Pre.board EXCEPT ![last.line][last.index] = last.card]
       /\ ~ Available(getCardKey(last.card))
       /\ combinationSlots = Pre.combinationSlots
       /\ sent = <<>>

C22_Witness ==
    /\ C22_DropAccepted
    /\ board[last.line][last.index] = last.card
    /\ ~ Empty(Pre.combinationSlots)
    /\ pending # <<>>
    /\ sent = <<>>

(* C23: a second submit is accepted while an earlier /ai_move request is   *)
(* still outstanding, no request is cancelled, and every successful        *)
(* response is applied to the board and the zone sets at the moment it     *)
(* arrives, in arrival order whatever the order of issue: the cards of its *)
(* move fill the slots that are empty on arrival and its keys are          *)
(* discarded, also when an earlier request is still outstanding.           *)
C23_AiMoveOutstanding(requests) ==
    \E k \in 1..Len(requests) : requests[k].url = "/ai_move"

\* the outstanding requests other than the one the event settled, in order
C23_StillOutstanding ==
    IF last.op \in {"aiMoveSettled", "updateStateSettled"}
    THEN SubSeq(last.prePending, 1, last.index - 1)
         \o SubSeq(last.prePending, last.index + 1, Len(last.prePending))
    ELSE last.prePending

C23_OverlappingSubmits ==
    /\ (last.op = "clickPlus" /\ ~ Empty(Pre.combinationSlots))
       => /\ Cardinality(RequestsTo("/ai_move")) = 1
          /\ Len(pending) = Len(last.prePending) + 1
          /\ pending[Len(pending)].url = "/ai_move"
    /\ last.op # "init"
       => /\ Len(pending) >= Len(C23_StillOutstanding)
          /\ SubSeq(pending, 1, Len(C23_StillOutstanding)) = C23_StillOutstanding
    /\ (last.op = "aiMoveSettled" /\ last.outcome = "ok")
       => /\ \A p \in BoardSlotIds :
                (Pre.board[p[1]][p[2]] = NoCard
                   /\ p[2] + 1 <= Len(last.data.move[p[1]])
                   /\ last.data.move[p[1]][p[2] + 1] # NoCard)
                => board[p[1]][p[2]] = last.data.move[p[1]][p[2] + 1]
          /\ \A line \in LineSet :
                \A c \in SeqToSet(last.data.move[line]) \ {NoCard} :
                    getCardKey(c) \in discardedCards

\* the response to the later of two outstanding /ai_move requests arrives
\* first and is applied
C23_Witness ==
    /\ last.op = "aiMoveSettled"
    /\ last.outcome = "ok"
    /\ last.index = 2
    /\ last.prePending[1].url = "/ai_move"
    /\ pending[1] = last.prePending[1]
    /\ board # Pre.board

(* C24: every failed request, for each of /ai_move, /update_state sent by  *)
(* updateGameStateAndSend, /update_state sent by remove-selected and       *)
(* /update_state sent by saveSettings, and for each kind of failure        *)
(* (non-2xx status, thrown transport error, error field in the body),      *)
(* produces a user-visible notice.                                         *)
C24_FailureIsNoticed ==
    (/\ last.op \in {"aiMoveSettled", "updateStateSettled"}
     /\ last.outcome \in {"http_error", "network_error", "error_field"})
    => alerts # <<>>

(* C25: no request is ever re-sent automatically: after a failed response  *)
(* no new request is issued until a new user action, and the only request  *)
(* issued without a direct user action is the single follow-up sent after  *)
(* a successful /ai_move response.                                         *)
C25_Settled == last.op \in {"aiMoveSettled", "updateStateSettled"}

C25_SingleFollowUp ==
    C25_Settled
    => IF last.op = "aiMoveSettled" /\ last.outcome = "ok"
       THEN Len(sent) = 1 /\ sent[1].url = "/update_state"
       ELSE sent = <<>>

(* C25, amended: no request is re-sent automatically: the handler of a     *)
(* failed response and the handler of a successful /update_state response  *)
(* issue no request; the handler of a successful /ai_move response issues  *)
(* exactly two, the /update_state follow-up and a GET /training_progress.   *)
C25_NoRetry ==
    C25_Settled
    => IF last.op = "aiMoveSettled" /\ last.outcome = "ok"
       THEN /\ Len(sent) = 2
            /\ sent[1].url = "/update_state"
            /\ sent[2].url = "/training_progress"
       ELSE /\ sent = <<>>
            /\ pending = C23_StillOutstanding

C25_Witness ==
    /\ last.op = "aiMoveSettled"
    /\ last.outcome \in {"http_error", "network_error"}
    /\ ~ Empty(combinationSlots)
    /\ sent = <<>>
    /\ ~ C23_AiMoveOutstanding(pending)

(* C26: royalties and the total royalty are displayed only by the handler  *)
(* of a successful /ai_move response whose game_over is true; a successful *)
(* response with game_over false and a reset both leave the royalty        *)
(* display empty, and an error response never changes it.  The row texts   *)
(* are written and cleared by the same statements as the total, which      *)
(* stands for the display.                                                 *)
C26_GameOverResponse ==
    /\ last.op = "aiMoveSettled"
    /\ last.outcome = "ok"
    /\ last.data.game_over

C26_RoyaltyOnlyAtGameOver ==
    /\ C26_GameOverResponse => totalRoyalty # ""
    /\ (last.op = "aiMoveSettled" /\ last.outcome = "ok" /\ ~ last.data.game_over)
       => totalRoyalty = ""
    /\ last.op = "clickReset" => totalRoyalty = ""
    /\ (last.op # "init" /\ ~ C26_GameOverResponse)
       => totalRoyalty \in {"", Pre.totalRoyalty}
    /\ (/\ last.op \in {"aiMoveSettled", "updateStateSettled"}
        /\ last.outcome \in {"http_error", "network_error", "error_field"})
       => totalRoyalty = Pre.totalRoyalty

C26_Witness ==
    /\ last.op = "aiMoveSettled"
    /\ last.outcome = "ok"
    /\ ~ last.data.game_over
    /\ Pre.totalRoyalty # ""
    /\ totalRoyalty = ""

(* C27: every key that occupies a staging slot or a board slot is not      *)
(* available: in every state reached after a handler has finished, the key *)
(* of each occupied slot is in the unavailable or in the discarded set.    *)
C27_SlotKeysNotAvailable ==
    /\ \A c \in StagedCards(combinationSlots) : ~ Available(getCardKey(c))
    /\ \A key \in BoardKeys(board) : ~ Available(key)

\* a card dropped onto the board, not yet discarded, stays not available
\* when the response to a submit clears the unavailable set
C27_Witness ==
    /\ last.op = "aiMoveSettled"
    /\ last.outcome = "ok"
    /\ ~ last.data.game_over
    /\ \E key \in BoardKeys(Pre.board) :
          /\ key \notin Pre.discardedCards
          /\ key \in BoardKeys(board)
          /\ ~ Available(key)

(* C28: a card staged after a submit was issued and before its response    *)
(* arrives is not lost: when the successful response is applied, the card  *)
(* is still in a staging slot, or on the board, or its key is discarded.   *)
C28_StagedAfterSubmit ==
    {c \in StagedCards(Pre.combinationSlots) :
        c \notin SeqToSet(last.prePending[last.index].selected_cards)}

C28_LateCardNotLost ==
    (last.op = "aiMoveSettled" /\ last.outcome = "ok")
    => \A c \in C28_StagedAfterSubmit :
          \/ c \in StagedCards(combinationSlots)
          \/ getCardKey(c) \in BoardKeys(board)
          \/ getCardKey(c) \in discardedCards

(* C29: a reset is not undone by an older request: after resetTraining the *)
(* response to an /ai_move request issued before the reset places no card  *)
(* on the board and adds no key to the discarded set.  Right after the     *)
(* reset every outstanding /ai_move request is older than the reset, so    *)
(* the step that applies a successful response in that state must leave    *)
(* the board and the discarded set as the reset left them.                 *)
C29_StaleResponseStep ==
    /\ last.op = "clickReset"
    /\ last'.op = "aiMoveSettled"
    /\ last'.outcome = "ok"

C29_ResetNotUndone ==
    [][C29_StaleResponseStep => (board' = board /\ discardedCards' = discardedCards)]_vars

(* C30: in every request payload built from the local state (/ai_move and  *)
(* /update_state), no card appears both in selected_cards and in board or  *)
(* discarded_cards, and every card in board also appears in                *)
(* discarded_cards.                                                        *)
C30_StateRequests ==
    {sent[k] : k \in {j \in 1..Len(sent) : sent[j].url \in {"/ai_move", "/update_state"}}}

C30_BoardCards(r) == UNION {SeqToSet(r.board[line]) : line \in LineSet}

C30_PayloadConsistent ==
    \A r \in C30_StateRequests :
        /\ SeqToSet(r.selected_cards) \cap C30_BoardCards(r) = {}
        /\ SeqToSet(r.selected_cards) \cap r.discarded_cards = {}
        /\ C30_BoardCards(r) \subseteq r.discarded_cards

(* C31: no placeable selection is ever left pending: in every state        *)
(* reached after a handler has finished, if both a rank and a suit are     *)
(* selected then the resulting key is unavailable or discarded, or every   *)
(* staging slot is occupied.                                               *)
C31_NoPlaceableSelectionPending ==
    (selectedRank # Null /\ selectedSuit # Null)
    => \/ ~ Available(selectedRank \o selectedSuit)
       \/ Occupied(combinationSlots) = CombIdx

(* C32: with the page bootstrap as written, exactly one Game object        *)
(* receives every input event, so the staging slots changed by a rank or   *)
(* suit click are the same slots that double-click, drop, submit and       *)
(* remove-selected read and modify: every handler call so far went to one  *)
(* object and worked on the slots of one object.                           *)
C32_OneGameObject ==
    /\ \A p \in receivers, q \in receivers : p[2] = q[2] /\ p[3] = q[3]
    /\ PageSlots = combinationSlots

============================================================================
